---------------------------- MODULE Spec2Model ----------------------------
(***************************************************************************)
(* Model of MedVarSemantica_FINAL.py: extraction of syntactic              *)
(* constructions (svo, n_adj, adj_n) from parsed KWIC sentences, semantic  *)
(* domain assignment through WordNet, light-verb filtering, variability    *)
(* tables, coverage statistics and export.                                 *)
(*                                                                         *)
(* The spaCy parser and the WordNet lookup are external: a parsed sentence *)
(* (doc) is a sequence of tokens [text, lemma, pos, dep, head], and a      *)
(* lookup answer is [raises, synsets] with synsets the sequence of the     *)
(* lexnames of the senses returned.                                        *)
(***************************************************************************)
EXTENDS Integers, Sequences, FiniteSets, TLC

VARIABLES
    pc,               \* position of the script
    tipo_construcao,  \* line 102
    file_exists,      \* os.path.exists(FILE_PATH), line 201
    kwics,            \* parsed sentences of kwic_pairs, line 209
    idx,              \* number of kwic_pairs already visited by the loop of line 218
    extraido,         \* line 220-226: <<>> is None, <<row>> a construction
    dados,            \* line 217
    n_classificadas,  \* number of entries already visited by the loop of line 236
    df,               \* line 248: [columns, rows]
    df_var,           \* variability tables, lines 263-295
    df_var_sorted,    \* sorted variability tables, lines 302-350
    total,            \* line 361
    desconhecidos,    \* line 362
    percentagem,      \* line 363, the exact quotient num/den
    folhas,           \* sheets written by lines 373-383
    erro,             \* exception that ended the run, "" if none
    word,             \* argument of obter_dominios
    wn_resposta,      \* what wn.synsets does for that call
    resultado         \* value returned by obter_dominios

vars == <<pc, tipo_construcao, file_exists, kwics, idx, extraido, dados,
          n_classificadas, df, df_var, df_var_sorted, total, desconhecidos,
          percentagem, folhas, erro, word, wn_resposta, resultado>>

-----------------------------------------------------------------------------
(* Bounds of the model *)

MaxKwics == 4
MaxSvoTokens == 4
MaxAdjTokens == 3
MaxSenses == 2
MaxRows == 6

-----------------------------------------------------------------------------
(* Python values *)

PyNone == "<None>"

\* truth value of a str-or-None value
Truthy(x) == x # PyNone /\ x # ""

Tok(text, lemma, pos, dep, head) ==
    [text |-> text, lemma |-> lemma, pos |-> pos, dep |-> dep, head |-> head]

SeqsUpTo(S, n) == UNION {[1..m -> S] : m \in 0..n}

SetMin(S) == CHOOSE x \in S : \A y \in S : x <= y

-----------------------------------------------------------------------------
(* extrair_svo, lines 124-141 *)

RECURSIVE SvoLoop(_, _, _, _, _)
SvoLoop(doc, k, sujeito, verbo, objeto) ==
    IF k > Len(doc) THEN <<sujeito, verbo, objeto>>
    ELSE LET token == doc[k] IN
         IF token.dep = "ROOT" /\ token.pos = "VERB"
           THEN SvoLoop(doc, k + 1, sujeito, token.lemma, objeto)
         ELSE IF token.dep = "nsubj"
           THEN SvoLoop(doc, k + 1, token.text, verbo, objeto)
         ELSE IF token.dep \in {"obj", "dobj", "obl", "attr"}
           THEN SvoLoop(doc, k + 1, sujeito, verbo, token.lemma)
         ELSE SvoLoop(doc, k + 1, sujeito, verbo, objeto)

\* faulty variant: the subject alone decides
extrair_svo_so_sujeito(doc) ==
    LET s == SvoLoop(doc, 1, PyNone, PyNone, PyNone)
        sujeito == s[1]  verbo == s[2]  objeto == s[3]
    IN  IF Truthy(verbo) \/ Truthy(sujeito)
          THEN << [sujeito |-> IF Truthy(sujeito) THEN sujeito ELSE "",
                   verbo   |-> IF Truthy(verbo) THEN verbo ELSE "",
                   objeto  |-> IF Truthy(objeto) THEN objeto ELSE ""] >>
          ELSE <<>>

extrair_svo(doc) ==
    LET s == SvoLoop(doc, 1, PyNone, PyNone, PyNone)
        sujeito == s[1]  verbo == s[2]  objeto == s[3]
    IN  IF Truthy(verbo) /\ (Truthy(sujeito) \/ Truthy(objeto))
          THEN << [sujeito |-> IF Truthy(sujeito) THEN sujeito ELSE "",
                   verbo   |-> verbo,
                   objeto  |-> IF Truthy(objeto) THEN objeto ELSE ""] >>
          ELSE <<>>

-----------------------------------------------------------------------------
(* extrair_n_adj, lines 143-148 *)

RECURSIVE NAdjLoop(_, _)
NAdjLoop(doc, k) ==
    IF k > Len(doc) THEN <<>>
    ELSE LET token == doc[k] IN
         IF token.pos = "ADJ" /\ doc[token.head].pos = "NOUN"
           THEN << [nome |-> doc[token.head].lemma, adjetivo |-> token.lemma] >>
           ELSE NAdjLoop(doc, k + 1)

extrair_n_adj(doc) == NAdjLoop(doc, 1)

-----------------------------------------------------------------------------
(* extrair_adj_n, lines 150-158 *)

\* second loop, lines 155-157: i ranges over range(len(doc) - 1)
RECURSIVE AdjNFallback(_, _)
AdjNFallback(doc, i) ==
    IF i > Len(doc) - 1 THEN <<>>
    ELSE IF doc[i].pos = "ADJ" /\ doc[i + 1].pos = "NOUN"
           THEN << [adjetivo |-> doc[i].lemma, nome |-> doc[i + 1].lemma] >>
           ELSE AdjNFallback(doc, i + 1)

\* faulty variant: the first loop forgets token.i < token.head.i
RECURSIVE AdjNLoopSemOrdem(_, _)
AdjNLoopSemOrdem(doc, k) ==
    IF k > Len(doc) THEN AdjNFallback(doc, 1)
    ELSE LET token == doc[k] IN
         IF token.pos = "ADJ" /\ doc[token.head].pos = "NOUN"
           THEN << [adjetivo |-> token.lemma, nome |-> doc[token.head].lemma] >>
           ELSE AdjNLoopSemOrdem(doc, k + 1)

extrair_adj_n_sem_ordem(doc) == AdjNLoopSemOrdem(doc, 1)

\* first loop, lines 152-154
RECURSIVE AdjNLoop(_, _)
AdjNLoop(doc, k) ==
    IF k > Len(doc) THEN AdjNFallback(doc, 1)
    ELSE LET token == doc[k] IN
         IF token.pos = "ADJ" /\ doc[token.head].pos = "NOUN" /\ k < token.head
           THEN << [adjetivo |-> token.lemma, nome |-> doc[token.head].lemma] >>
           ELSE AdjNLoop(doc, k + 1)

extrair_adj_n(doc) == AdjNLoop(doc, 1)

-----------------------------------------------------------------------------
(* mapeamento_dominios, lines 161-181 *)

mapeamento_dominios ==
    ("noun.person" :> "pessoa") @@ ("noun.artifact" :> "objeto") @@
    ("noun.act" :> "evento") @@ ("noun.event" :> "evento") @@
    ("noun.group" :> "organização") @@ ("noun.location" :> "lugar") @@
    ("noun.communication" :> "comunicação") @@ ("noun.state" :> "estado") @@
    ("noun.cognition" :> "conhecimento") @@ ("noun.quantity" :> "quantidade") @@
    ("noun.attribute" :> "característica") @@ ("noun.time" :> "tempo") @@
    ("noun.animal" :> "animal") @@ ("noun.body" :> "corpo") @@
    ("noun.food" :> "comida") @@ ("noun.substance" :> "matéria") @@
    ("noun.object" :> "objeto") @@ ("noun.feeling" :> "emoção") @@
    ("noun.phenomenon" :> "fenómeno")

\* dict.get(key, default)
DictGet(d, key, default) == IF key \in DOMAIN d THEN d[key] ELSE default

\* the strings of the model that str.strip() turns into ""
Brancos == {"", " ", "  "}

\* faulty variant: the guard of line 185 is missing
obter_dominios_sem_guarda(w, resposta) ==
    LET synsets == IF resposta.raises THEN <<>> ELSE resposta.synsets IN
    IF synsets = <<>> THEN <<"desconhecido", "desconhecido">>
    ELSE LET subdominio == synsets[1] IN
         <<DictGet(mapeamento_dominios, subdominio, "outro"), subdominio>>

\* obter_dominios, lines 183-196; resposta is what wn.synsets(word, lang) does
obter_dominios(w, resposta) ==
    IF ~Truthy(w) \/ w \in Brancos THEN <<"desconhecido", "desconhecido">>
    ELSE LET synsets == IF resposta.raises THEN <<>> ELSE resposta.synsets IN
         IF synsets = <<>> THEN <<"desconhecido", "desconhecido">>
         ELSE LET subdominio == synsets[1] IN
              <<DictGet(mapeamento_dominios, subdominio, "outro"), subdominio>>

\* lexnames a WordNet sense can carry: those of the table and three outside it
Lexnames == DOMAIN mapeamento_dominios \cup {"noun.plant", "verb.motion", "adj.all"}

\* the WordNet of the pipeline runs: the senses of each word of the corpus
WnSynsets(w) ==
    [raises |-> FALSE,
     synsets |-> CASE w = "peixe" -> <<"noun.animal", "noun.food">>
                   [] w = "gato" -> <<"noun.animal">>
                   [] w = "casa" -> <<"noun.artifact">>
                   [] w = "bolo" -> <<"noun.food">>
                   [] w = "ideia" -> <<"noun.cognition", "noun.communication">>
                   [] w = "dia" -> <<"noun.time">>
                   [] w = "bom" -> <<"adj.all">>
                   [] OTHER -> <<>>]

-----------------------------------------------------------------------------
(* str ordering and str.lower over the strings of the model *)

\* the anchors and domain labels of the model, in code point order
OrdemCodigo ==
    << "Bom", "Grande", "animal", "bolo", "bom", "característica", "casa",
       "comer", "comida", "comunicação", "conhecimento", "corpo",
       "desconhecido", "dia", "emoção", "estado", "evento", "fazer",
       "fenómeno", "gato", "grande", "ideia", "lugar", "matéria", "objeto",
       "organização", "outro", "peixe", "pessoa", "quantidade", "tempo",
       "ter", "ver" >>

Rank(s) == CHOOSE i \in 1..Len(OrdemCodigo) : OrdemCodigo[i] = s

\* sorted(S) for a set of strings
RECURSIVE Sorted(_)
Sorted(S) ==
    IF S = {} THEN <<>>
    ELSE LET m == CHOOSE x \in S : \A y \in S : Rank(x) <= Rank(y)
         IN  <<m>> \o Sorted(S \ {m})

Lower(s) ==
    CASE s = "Bom" -> "bom"
      [] s = "Grande" -> "grande"
      [] OTHER -> s

Range(f) == {f[i] : i \in DOMAIN f}

-----------------------------------------------------------------------------
(* pandas *)

\* pd.DataFrame(list of dicts): the columns are the keys of the dicts
DataFrame(rows) ==
    [columns |-> UNION {DOMAIN rows[i] : i \in 1..Len(rows)}, rows |-> rows]

\* faulty variant: every column is there, also in a frame built from no rows
TemColunaSempre(d, c) == TRUE

\* d[c] raises KeyError unless c is a column of d
TemColuna(d, c) == c \in d.columns

\* line 257
verbos_leves ==
    {"fazer", "ter", "dar", "estar", "haver", "ficar", "pôr", "levar",
     "deixar", "manter"}

\* faulty variant: nothing is removed
manter_verbos_leves(rows) == rows

\* line 258: df[~df["verbo"].isin(verbos_leves)]
remover_verbos_leves(rows) ==
    SelectSeq(rows, LAMBDA r : r.verbo \notin verbos_leves)

\* lines 252-253
normalizar(rows) ==
    [i \in 1..Len(rows) |->
        [rows[i] EXCEPT !.nome = Lower(@), !.adjetivo = Lower(@)]]

\* faulty variant: len(x) in place of len(set(x))
variabilidade_sem_set(x) ==
    [variabilidade |-> Len(x), dominios |-> Sorted(Range(x))]

\* the lambda of lines 265-268 (and 271, 278, 287, 292)
variabilidade(x) ==
    [variabilidade |-> Cardinality(Range(x)), dominios |-> Sorted(Range(x))]

\* df.groupby(key)[val].apply(list) for one key value
RECURSIVE ListaDe(_, _, _, _)
ListaDe(rows, key, val, a) ==
    IF rows = <<>> THEN <<>>
    ELSE (IF Head(rows)[key] = a THEN <<Head(rows)[val]>> ELSE <<>>)
         \o ListaDe(Tail(rows), key, val, a)

\* groupby + apply + reset_index, lines 264-268: one record per key, the keys
\* sorted; over no rows, Series.apply gives back the empty Series, and
\* reset_index a frame without the columns by and dom
agrupar(d, key, val, by, dom, sheet) ==
    IF d.rows = <<>>
      THEN [key |-> key, val |-> val, by |-> by, sheet |-> sheet,
            columns |-> {key, val}, rows |-> <<>>]
      ELSE LET keys == Sorted({d.rows[i][key] : i \in 1..Len(d.rows)}) IN
           [key |-> key, val |-> val, by |-> by, sheet |-> sheet,
            columns |-> {key, by, dom},
            rows |-> [g \in 1..Len(keys) |->
                        [anchor |-> keys[g]]
                        @@ variabilidade(ListaDe(d.rows, key, val, keys[g]))]]

\* line 282: rename(columns={old: new})
rename(t, old, new) ==
    [t EXCEPT !.columns = IF old \in @ THEN (@ \ {old}) \cup {new} ELSE @]

\* sort_values(by=..., ascending=False) with the default kind, quicksort, which
\* is not stable: any order of the records that is non-increasing in by
sort_values(t) ==
    LET n == Len(t.rows) IN
    {[t EXCEPT !.rows = [i \in 1..n |-> t.rows[p[i]]]] :
        p \in {q \in Permutations(1..n) :
                 \A i, j \in 1..n :
                    i < j => t.rows[q[i]].variabilidade >= t.rows[q[j]].variabilidade}}

\* faulty variant: the share of the rows without a domain
PercentagemDesconhecidos(t, d) ==
    IF t # 0 THEN [num |-> 100 * d, den |-> t] ELSE [num |-> 0, den |-> 1]

\* line 363; the quotient 100 * (total - desconhecidos) / total is kept exact
Percentagem(t, d) ==
    IF t # 0 THEN [num |-> 100 * (t - d), den |-> t] ELSE [num |-> 0, den |-> 1]

-----------------------------------------------------------------------------
(* The parsed sentences the runs read *)

Tipos == {"svo", "n_adj", "adj_n"}

\* parses of the svo runs
CorpusSvo ==
    { <<Tok("gato", "gato", "NOUN", "nsubj", 2), Tok("come", "comer", "VERB", "ROOT", 2),
        Tok("peixe", "peixe", "NOUN", "obj", 2)>>,
      <<Tok("come", "comer", "VERB", "ROOT", 1), Tok("casa", "casa", "NOUN", "obl", 1)>>,
      <<Tok("ela", "ela", "PRON", "nsubj", 2), Tok("faz", "fazer", "VERB", "ROOT", 2),
        Tok("bolo", "bolo", "NOUN", "obj", 2)>>,
      <<Tok("ele", "ele", "PRON", "nsubj", 2), Tok("vê", "ver", "VERB", "ROOT", 2)>>,
      <<Tok("a", "o", "DET", "det", 2), Tok("casa", "casa", "NOUN", "ROOT", 2)>>,
      <<Tok("gato", "gato", "NOUN", "nsubj", 2), Tok("vê", "ver", "VERB", "ROOT", 2),
        Tok("ideia", "ideia", "NOUN", "obj", 2)>> }

\* parses of the n_adj runs
CorpusNAdj ==
    { <<Tok("dia", "dia", "NOUN", "ROOT", 1), Tok("bom", "bom", "ADJ", "amod", 1)>>,
      <<Tok("casa", "casa", "NOUN", "ROOT", 1), Tok("grande", "grande", "ADJ", "amod", 1)>>,
      <<Tok("Bom", "Bom", "ADJ", "amod", 2), Tok("dia", "dia", "NOUN", "ROOT", 2)>>,
      <<Tok("dia", "dia", "NOUN", "ROOT", 1), Tok("grande", "grande", "ADJ", "amod", 1)>>,
      <<Tok("casa", "casa", "NOUN", "ROOT", 1)>>,
      <<Tok("gato", "gato", "NOUN", "ROOT", 1), Tok("bom", "bom", "ADJ", "amod", 1)>> }

\* parses of the adj_n runs
CorpusAdjN ==
    { <<Tok("bom", "bom", "ADJ", "amod", 2), Tok("dia", "dia", "NOUN", "ROOT", 2)>>,
      <<Tok("grande", "grande", "ADJ", "amod", 2), Tok("casa", "casa", "NOUN", "ROOT", 2)>>,
      <<Tok("bom", "bom", "ADJ", "ROOT", 1), Tok("casa", "casa", "NOUN", "dep", 1)>>,
      <<Tok("dia", "dia", "NOUN", "ROOT", 1), Tok("bom", "bom", "ADJ", "amod", 1)>>,
      <<Tok("Grande", "Grande", "ADJ", "amod", 2), Tok("gato", "gato", "NOUN", "ROOT", 2)>>,
      <<Tok("grande", "grande", "ADJ", "amod", 2), Tok("dia", "dia", "NOUN", "ROOT", 2)>> }

Corpus(tipo) ==
    CASE tipo = "svo" -> CorpusSvo
      [] tipo = "n_adj" -> CorpusNAdj
      [] tipo = "adj_n" -> CorpusAdjN

\* tokens of the exhaustive svo parses
SvoTokens ==
    { Tok("gatos", "gato", "NOUN", "nsubj", 1), Tok("cães", "cão", "NOUN", "nsubj", 1),
      Tok("come", "comer", "VERB", "ROOT", 1), Tok("faz", "fazer", "VERB", "ROOT", 1),
      Tok("casa", "casa", "NOUN", "ROOT", 1),
      Tok("peixes", "peixe", "NOUN", "obj", 1), Tok("bolos", "bolo", "NOUN", "dobj", 1),
      Tok("casas", "casa", "NOUN", "obl", 1), Tok("boa", "bom", "ADJ", "attr", 1),
      Tok("os", "o", "DET", "det", 1) }

\* every parse of up to n tokens over SvoTokens
SvoDocs(n) == SeqsUpTo(SvoTokens, n)

\* words of the exhaustive adj_n parses: <<text, lemma, pos>>
AdjLex ==
    { <<"boa", "bom", "ADJ">>, <<"grandes", "grande", "ADJ">>,
      <<"dias", "dia", "NOUN">>, <<"casas", "casa", "NOUN">>,
      <<"é", "ser", "VERB">> }

\* the parse of n tokens whose k-th token is the word f[k][1] with head f[k][2]
AdjDoc(n, f) ==
    [k \in 1..n |-> Tok(f[k][1][1], f[k][1][2], f[k][1][3], "dep", f[k][2])]

Palavras == {PyNone, "", " ", "  ", "peixe", "xyz"}

\* what the lookup can do: raise, or return up to n senses
Respostas(n) ==
    {[raises |-> TRUE, synsets |-> <<>>]}
    \cup {[raises |-> FALSE, synsets |-> s] : s \in SeqsUpTo(Lexnames, n)}

DominiosAmostra == {"desconhecido", "animal", "outro"}

-----------------------------------------------------------------------------
(* The script, lines 201-385 *)

SemFrame == [columns |-> {}, rows |-> <<>>]

InitComum ==
    /\ idx = 0
    /\ extraido = <<>>
    /\ dados = <<>>
    /\ n_classificadas = 0
    /\ df_var = <<>>
    /\ df_var_sorted = <<>>
    /\ total = 0
    /\ desconhecidos = 0
    /\ percentagem = [num |-> 0, den |-> 0]
    /\ folhas = <<>>
    /\ erro = ""
    /\ resultado = <<>>

Init ==
    /\ InitComum
    /\ pc = "inicio"
    /\ tipo_construcao \in Tipos
    /\ file_exists \in BOOLEAN
    /\ kwics = <<>>
    /\ df = SemFrame
    /\ word = PyNone
    /\ wn_resposta = [raises |-> FALSE, synsets |-> <<>>]

\* an uncaught exception ends the script
Abortar(e) ==
    /\ pc' = "abortado"
    /\ erro' = e

\* lines 201-202
VerificarFicheiro ==
    /\ pc = "inicio"
    /\ IF file_exists
         THEN pc' = "ler" /\ erro' = erro
         ELSE Abortar("FileNotFoundError")
    /\ UNCHANGED <<tipo_construcao, file_exists, kwics, idx, extraido, dados,
                   n_classificadas, df, df_var, df_var_sorted, total,
                   desconhecidos, percentagem, folhas, word, wn_resposta,
                   resultado>>

\* lines 204-212: the kwic elements of the document, parsed
LerXml ==
    /\ pc = "ler"
    /\ \E ks \in SeqsUpTo(Corpus(tipo_construcao), MaxKwics) : kwics' = ks
    /\ pc' = "extrair"
    /\ UNCHANGED <<tipo_construcao, file_exists, idx, extraido, dados,
                   n_classificadas, df, df_var, df_var_sorted, total,
                   desconhecidos, percentagem, folhas, erro, word, wn_resposta,
                   resultado>>

\* lines 219-226
extrair(tipo, frase) ==
    IF tipo = "svo" THEN extrair_svo(frase)
    ELSE IF tipo = "n_adj" THEN extrair_n_adj(frase)
    ELSE IF tipo = "adj_n" THEN extrair_adj_n(frase)
    ELSE <<>>

\* lines 218-230, one sentence; the fields frase_limpa and frase_original of
\* the row (and construcao, line 240) are only printed and exported
Extrair ==
    /\ pc = "extrair"
    /\ idx < Len(kwics)
    /\ LET e == extrair(tipo_construcao, kwics[idx + 1]) IN
         /\ extraido' = e
         /\ dados' = IF e # <<>> THEN Append(dados, e[1]) ELSE dados
    /\ idx' = idx + 1
    /\ UNCHANGED <<pc, tipo_construcao, file_exists, kwics, n_classificadas,
                   df, df_var, df_var_sorted, total, desconhecidos,
                   percentagem, folhas, erro, word, wn_resposta, resultado>>

\* line 232, after the last sentence
FimExtrair ==
    /\ pc = "extrair"
    /\ idx = Len(kwics)
    /\ pc' = "classificar"
    /\ UNCHANGED <<tipo_construcao, file_exists, kwics, idx, extraido, dados,
                   n_classificadas, df, df_var, df_var_sorted, total,
                   desconhecidos, percentagem, folhas, erro, word, wn_resposta,
                   resultado>>

\* lines 237-246, the domain fields of one entry
classificar(tipo, entrada) ==
    IF tipo = "svo"
      THEN LET o == obter_dominios(entrada.objeto, WnSynsets(entrada.objeto))
               s == obter_dominios(entrada.sujeito, WnSynsets(entrada.sujeito))
           IN  entrada @@ [dominio |-> o[1], subdominio |-> o[2],
                           dominio_sujeito |-> s[1], subdominio_sujeito |-> s[2]]
      ELSE LET n == obter_dominios(entrada.nome, WnSynsets(entrada.nome))
           IN  entrada @@ [dominio |-> n[1], subdominio |-> n[2]]

\* lines 236-246, one entry
Classificar ==
    /\ pc = "classificar"
    /\ n_classificadas < Len(dados)
    /\ dados' = [dados EXCEPT ![n_classificadas + 1] =
                    classificar(tipo_construcao, @)]
    /\ n_classificadas' = n_classificadas + 1
    /\ UNCHANGED <<pc, tipo_construcao, file_exists, kwics, idx, extraido, df,
                   df_var, df_var_sorted, total, desconhecidos, percentagem,
                   folhas, erro, word, wn_resposta, resultado>>

\* lines 248-258
CriarDataFrame ==
    /\ pc = "classificar"
    /\ n_classificadas = Len(dados)
    /\ LET d == DataFrame(dados) IN
         IF tipo_construcao \in {"n_adj", "adj_n"}
           THEN IF TemColuna(d, "nome") /\ TemColuna(d, "adjetivo")
                  THEN /\ df' = [d EXCEPT !.rows = normalizar(d.rows)]
                       /\ pc' = "agregar" /\ erro' = erro
                  ELSE df' = d /\ Abortar("KeyError")
           ELSE IF TemColuna(d, "verbo")
                  THEN /\ df' = [d EXCEPT !.rows = remover_verbos_leves(d.rows)]
                       /\ pc' = "agregar" /\ erro' = erro
                  ELSE df' = d /\ Abortar("KeyError")
    /\ UNCHANGED <<tipo_construcao, file_exists, kwics, idx, extraido, dados,
                   n_classificadas, df_var, df_var_sorted, total,
                   desconhecidos, percentagem, folhas, word, wn_resposta,
                   resultado>>

\* line 285: the domain of each adjective, as two new columns
classificar_adjetivos(rows) ==
    [i \in 1..Len(rows) |->
        LET a == obter_dominios(rows[i].adjetivo, WnSynsets(rows[i].adjetivo))
        IN  rows[i] @@ [dominio_adjetivo |-> a[1], subdominio_adjetivo |-> a[2]]]

\* lines 263-295
Agregar ==
    /\ pc = "agregar"
    /\ IF tipo_construcao = "svo"
         THEN /\ df_var' =
                   << agrupar(df, "verbo", "dominio", "variabilidade_verbo_obj",
                              "dominios_obj", "Variabilidade_verbo_objeto"),
                      agrupar(df, "verbo", "dominio_sujeito", "variabilidade_verbo_suj",
                              "dominios_suj", "Variabilidade_verbo_sujeito") >>
              /\ df' = df
              /\ pc' = "ordenar" /\ erro' = erro
       ELSE IF tipo_construcao = "adj_n"
         THEN /\ df_var' =
                   << rename(agrupar(df, "adjetivo", "dominio", "variabilidade_semântica",
                                     "dominios", "Variabilidade"),
                             "adjetivo", "construcao") >>
              /\ df' = df
              /\ pc' = "ordenar" /\ erro' = erro
       ELSE IF df.rows = <<>>
         THEN /\ df_var' = df_var /\ df' = df
              /\ Abortar("ValueError")
         ELSE LET d == [columns |-> df.columns \cup {"dominio_adjetivo", "subdominio_adjetivo"},
                        rows |-> classificar_adjetivos(df.rows)]
              IN  /\ df' = d
                  /\ df_var' =
                       << agrupar(d, "nome", "dominio_adjetivo", "variabilidade_nome",
                                  "dominios", "Variabilidade_nome"),
                          agrupar(d, "adjetivo", "dominio", "variabilidade_adjetivo",
                                  "dominios", "Variabilidade_adjetivo") >>
                  /\ pc' = "ordenar" /\ erro' = erro
    /\ UNCHANGED <<tipo_construcao, file_exists, kwics, idx, extraido, dados,
                   n_classificadas, df_var_sorted, total, desconhecidos,
                   percentagem, folhas, word, wn_resposta, resultado>>

\* lines 302-356: each table sorted by its count; the print calls change nothing
Ordenar ==
    /\ pc = "ordenar"
    /\ IF \A k \in 1..Len(df_var) : TemColuna(df_var[k], df_var[k].by)
         THEN /\ \E s \in [1..Len(df_var) -> UNION {sort_values(df_var[k]) : k \in 1..Len(df_var)}] :
                    /\ \A k \in 1..Len(df_var) : s[k] \in sort_values(df_var[k])
                    /\ df_var_sorted' = s
              /\ pc' = "cobertura" /\ erro' = erro
         ELSE /\ df_var_sorted' = df_var_sorted
              /\ Abortar("KeyError")
    /\ UNCHANGED <<tipo_construcao, file_exists, kwics, idx, extraido, dados,
                   n_classificadas, df, df_var, total, desconhecidos,
                   percentagem, folhas, word, wn_resposta, resultado>>

\* lines 361-364
Cobertura ==
    /\ pc = "cobertura"
    /\ IF TemColuna(df, "dominio")
         THEN LET t == Len(df.rows)
                  d == Cardinality({i \in 1..Len(df.rows) : df.rows[i].dominio = "desconhecido"})
              IN  /\ total' = t
                  /\ desconhecidos' = d
                  /\ percentagem' = Percentagem(t, d)
                  /\ pc' = "exportar" /\ erro' = erro
         ELSE /\ total' = Len(df.rows)
              /\ UNCHANGED <<desconhecidos, percentagem>>
              /\ Abortar("KeyError")
    /\ UNCHANGED <<tipo_construcao, file_exists, kwics, idx, extraido, dados,
                   n_classificadas, df, df_var, df_var_sorted, folhas, word,
                   wn_resposta, resultado>>

\* lines 369-385
Exportar ==
    /\ pc = "exportar"
    /\ folhas' = <<[sheet |-> "Construcoes", rows |-> df.rows]>>
                 \o [k \in 1..Len(df_var_sorted) |->
                       [sheet |-> df_var_sorted[k].sheet, rows |-> df_var_sorted[k].rows]]
    /\ pc' = "done"
    /\ UNCHANGED <<tipo_construcao, file_exists, kwics, idx, extraido, dados,
                   n_classificadas, df, df_var, df_var_sorted, total,
                   desconhecidos, percentagem, erro, word, wn_resposta,
                   resultado>>

Next ==
    \/ VerificarFicheiro
    \/ LerXml
    \/ Extrair
    \/ FimExtrair
    \/ Classificar
    \/ CriarDataFrame
    \/ Agregar
    \/ Ordenar
    \/ Cobertura
    \/ Exportar

Spec == Init /\ [][Next]_vars

-----------------------------------------------------------------------------
(* extrair_svo and extrair_adj_n over every parse within the bounds: the loop *)
(* of line 218 over a single sentence                                        *)

InitFrase(tipo, doc) ==
    /\ InitComum
    /\ pc = "extrair"
    /\ tipo_construcao = tipo
    /\ file_exists = TRUE
    /\ kwics = <<doc>>
    /\ df = SemFrame
    /\ word = PyNone
    /\ wn_resposta = [raises |-> FALSE, synsets |-> <<>>]

InitSvo == \E doc \in SvoDocs(MaxSvoTokens) : InitFrase("svo", doc)

SpecSvo == InitSvo /\ [][Extrair]_vars

\* every parse of up to MaxAdjTokens tokens over AdjLex, each token with a
\* head in the sentence
InitAdjN ==
    \E n \in 0..MaxAdjTokens : \E f \in [1..n -> AdjLex \X (1..n)] :
        InitFrase("adj_n", AdjDoc(n, f))

SpecAdjN == InitAdjN /\ [][Extrair]_vars

(* obter_dominios over every word and every answer of the lookup *)

InitDom ==
    /\ InitComum
    /\ pc = "obter_dominios"
    /\ tipo_construcao = "svo"
    /\ file_exists = TRUE
    /\ kwics = <<>>
    /\ df = SemFrame
    /\ word \in Palavras
    /\ wn_resposta \in Respostas(MaxSenses)

\* lines 183-196, one call
ObterDominios ==
    /\ pc = "obter_dominios"
    /\ resultado' = obter_dominios(word, wn_resposta)
    /\ pc' = "retorno"
    /\ UNCHANGED <<tipo_construcao, file_exists, kwics, idx, extraido, dados,
                   n_classificadas, df, df_var, df_var_sorted, total,
                   desconhecidos, percentagem, folhas, erro, word, wn_resposta>>

SpecDom == InitDom /\ [][ObterDominios]_vars

(* the coverage statistics over every dataset within the bounds *)

InitCov ==
    /\ InitComum
    /\ pc = "cobertura"
    /\ tipo_construcao \in Tipos
    /\ file_exists = TRUE
    /\ kwics = <<>>
    /\ df \in {[columns |-> {"dominio"}, rows |-> r] :
                 r \in SeqsUpTo({[dominio |-> d] : d \in DominiosAmostra}, MaxRows)}
    /\ word = PyNone
    /\ wn_resposta = [raises |-> FALSE, synsets |-> <<>>]

SpecCov == InitCov /\ [][Cobertura]_vars

-----------------------------------------------------------------------------
(* Properties *)

Terminou == pc \in {"done", "abortado"}

\* the sentence of a single-sentence run
Frase == kwics[1]

RootVerbs(doc) == {k \in 1..Len(doc) : doc[k].dep = "ROOT" /\ doc[k].pos = "VERB"}
Subjects(doc) == {k \in 1..Len(doc) : doc[k].dep = "nsubj"}
Objects(doc) == {k \in 1..Len(doc) : doc[k].dep \in {"obj", "dobj", "obl", "attr"}}

\* C1: a run (of any type) that read at least one sentence and retained no
\* construction ends without an exception, with every variability table made
\* and empty, a coverage of 0 and the sheets written.
C1_ZeroRetidasTermina ==
    (Terminou /\ file_exists /\ kwics # <<>> /\ df.rows = <<>>)
        => /\ pc = "done"
           /\ erro = ""
           /\ df_var_sorted # <<>>
           /\ \A k \in 1..Len(df_var_sorted) : df_var_sorted[k].rows = <<>>
           /\ percentagem = [num |-> 0, den |-> 1]
           /\ Len(folhas) = 1 + Len(df_var_sorted)

\* C2: in an svo run no light verb is left in the dataset once it is
\* filtered, and none is the anchor of a record of either variability table,
\* sorted or not, or of an exported sheet.
C2_SemVerbosLeves ==
    tipo_construcao = "svo" =>
        /\ pc \in {"agregar", "ordenar", "cobertura", "exportar", "done"}
             => \A i \in 1..Len(df.rows) : df.rows[i].verbo \notin verbos_leves
        /\ \A k \in 1..Len(df_var) : \A i \in 1..Len(df_var[k].rows) :
             df_var[k].rows[i].anchor \notin verbos_leves
        /\ \A k \in 1..Len(df_var_sorted) : \A i \in 1..Len(df_var_sorted[k].rows) :
             df_var_sorted[k].rows[i].anchor \notin verbos_leves
        /\ \A k \in 2..Len(folhas) : \A i \in 1..Len(folhas[k].rows) :
             folhas[k].rows[i].anchor \notin verbos_leves

\* a light verb was extracted and classified, and the tables were exported with records
C2_Witness ==
    /\ tipo_construcao = "svo"
    /\ pc = "done"
    /\ \E i \in 1..Len(dados) : dados[i].verbo = "fazer" /\ dados[i].dominio = "comida"
    /\ Len(folhas) = 3
    /\ folhas[2].rows # <<>>

\* C3: the construction extrair_svo returns takes each slot from the first
\* matching token: the verb from the first ROOT verb, the subject from the
\* first nsubj, the object from the first obj, dobj, obl or attr.
C3_PrimeiroToken ==
    (idx = 1 /\ extraido # <<>>) =>
        /\ extraido[1].verbo = Frase[SetMin(RootVerbs(Frase))].lemma
        /\ Subjects(Frase) # {} => extraido[1].sujeito = Frase[SetMin(Subjects(Frase))].text
        /\ Objects(Frase) # {} => extraido[1].objeto = Frase[SetMin(Objects(Frase))].lemma

\* C4: extrair_svo returns a construction exactly when the sentence has a ROOT
\* verb and a subject or an object; every row of the dataset has a verb and a
\* subject or an object, and a sentence adds at most one row.
C4_ExtraiSseVerboEArgumento ==
    /\ Len(dados) <= idx
    /\ \A i \in 1..Len(dados) :
          /\ dados[i].verbo \notin {"", PyNone}
          /\ dados[i].sujeito # PyNone /\ dados[i].objeto # PyNone
          /\ dados[i].sujeito # "" \/ dados[i].objeto # ""
    /\ idx = 1 =>
          /\ (extraido # <<>>) <=>
                (RootVerbs(Frase) # {} /\ (Subjects(Frase) # {} \/ Objects(Frase) # {}))
          /\ dados = extraido

\* a sentence with a ROOT verb and an object but no subject gave a row
C4_Witness ==
    /\ idx = 1
    /\ Subjects(Frase) = {}
    /\ Len(dados) = 1
    /\ dados[1].sujeito = "" /\ dados[1].objeto # ""

\* the adjectives with a noun head that comes later, and the adjectives
\* immediately followed by a noun
Tier1(doc) ==
    {k \in 1..Len(doc) : doc[k].pos = "ADJ" /\ doc[doc[k].head].pos = "NOUN" /\ k < doc[k].head}
Tier2(doc) ==
    {k \in 1..(Len(doc) - 1) : doc[k].pos = "ADJ" /\ doc[k + 1].pos = "NOUN"}

\* C5: extrair_adj_n returns the first adjective with a later noun head,
\* paired with that head; only with no such adjective, the first adjective
\* immediately followed by a noun, paired with it; otherwise nothing.
C5_DoisNiveis ==
    idx = 1 =>
        IF Tier1(Frase) # {}
          THEN LET k == SetMin(Tier1(Frase)) IN
               extraido = << [adjetivo |-> Frase[k].lemma, nome |-> Frase[Frase[k].head].lemma] >>
        ELSE IF Tier2(Frase) # {}
          THEN LET k == SetMin(Tier2(Frase)) IN
               extraido = << [adjetivo |-> Frase[k].lemma, nome |-> Frase[k + 1].lemma] >>
        ELSE extraido = <<>>

\* the fallback gave the pair, in a sentence whose adjective has a noun head before it
C5_Witness ==
    /\ idx = 1
    /\ Tier1(Frase) = {}
    /\ \E k \in 1..Len(Frase) :
          Frase[k].pos = "ADJ" /\ Frase[Frase[k].head].pos = "NOUN" /\ Frase[k].head < k
    /\ extraido # <<>>
    /\ extraido[1] = [adjetivo |-> Frase[SetMin(Tier2(Frase))].lemma,
                      nome |-> Frase[SetMin(Tier2(Frase)) + 1].lemma]

Desconhecido == <<"desconhecido", "desconhecido">>

\* C6: obter_dominios returns (desconhecido, desconhecido) exactly when the
\* word is None, empty or blank, or the lookup raises or finds no sense;
\* otherwise the lexname of the first sense with its entry of the table, or
\* outro; desconhecido never comes with a lexname.
C6_Sentinela ==
    pc = "retorno" =>
        /\ Len(resultado) = 2
        /\ (resultado = Desconhecido) <=>
              \/ word = PyNone \/ word \in Brancos
              \/ wn_resposta.raises
              \/ wn_resposta.synsets = <<>>
        /\ resultado # Desconhecido =>
              /\ resultado[2] = wn_resposta.synsets[1]
              /\ resultado[2] \in DOMAIN mapeamento_dominios
                    => resultado[1] = mapeamento_dominios[resultado[2]]
              /\ resultado[2] \notin DOMAIN mapeamento_dominios => resultado[1] = "outro"
        /\ resultado[1] = "desconhecido" => resultado[2] = "desconhecido"

\* a blank word is not looked up, whatever senses the lookup would have found
C6_Witness ==
    /\ pc = "retorno"
    /\ word = " "
    /\ ~wn_resposta.raises /\ wn_resposta.synsets # <<>>
    /\ resultado = Desconhecido

\* the domain values of the rows of d whose column key is a
DominiosDe(d, key, val, a) ==
    {d.rows[i][val] : i \in {j \in 1..Len(d.rows) : d.rows[j][key] = a}}

TabelaCerta(t) ==
    /\ {t.rows[i].anchor : i \in 1..Len(t.rows)}
          = {df.rows[i][t.key] : i \in 1..Len(df.rows)}
    /\ \A i, j \in 1..Len(t.rows) : i # j => t.rows[i].anchor # t.rows[j].anchor
    /\ \A i \in 1..Len(t.rows) :
          LET r == t.rows[i] IN
          /\ Range(r.dominios) = DominiosDe(df, t.key, t.val, r.anchor)
          /\ \A m, n \in 1..Len(r.dominios) :
                m < n => Rank(r.dominios[m]) < Rank(r.dominios[n])
          /\ r.variabilidade = Len(r.dominios)

\* C7: every variability table, sorted or not, has exactly one record per
\* anchor value of the filtered dataset; the domain list of a record is the
\* set of the domain values of the anchor's rows, desconhecido included, in
\* increasing order without repetition, and the count is its length.
C7_UmRegistoPorAncora ==
    /\ \A k \in 1..Len(df_var) : TabelaCerta(df_var[k])
    /\ \A k \in 1..Len(df_var_sorted) : TabelaCerta(df_var_sorted[k])

\* an anchor with two rows of the same domain and one row without a domain
C7_Witness ==
    /\ pc = "done"
    /\ \E k \in 1..Len(df_var_sorted) : \E i \in 1..Len(df_var_sorted[k].rows) :
          LET t == df_var_sorted[k]  r == t.rows[i] IN
          /\ "desconhecido" \in Range(r.dominios)
          /\ r.variabilidade = 2
          /\ Cardinality({j \in 1..Len(df.rows) : df.rows[j][t.key] = r.anchor}) = 3

\* the place of an anchor in the grouping
Lugar(t, a) == CHOOSE i \in 1..Len(t.rows) : t.rows[i].anchor = a

\* C8: every sorted table is non-increasing in its count, and records with
\* equal counts are in the order of the grouping.
C8_OrdenacaoEstavel ==
    \A k \in 1..Len(df_var_sorted) :
        LET t == df_var_sorted[k] IN
        \A i, j \in 1..Len(t.rows) :
            i < j =>
               /\ t.rows[i].variabilidade >= t.rows[j].variabilidade
               /\ t.rows[i].variabilidade = t.rows[j].variabilidade
                    => Lugar(df_var[k], t.rows[i].anchor) < Lugar(df_var[k], t.rows[j].anchor)

\* C9: total is the number of rows of the dataset, desconhecidos the number
\* of them whose dominio is desconhecido, and the percentage is
\* 100 * (total - desconhecidos) / total, 0 with no rows; it is 0 when every
\* row is unknown, 100 when there are rows and none is unknown, and between
\* 0 and 100.
C9_Percentagem ==
    pc = "exportar" =>
        /\ total = Len(df.rows)
        /\ desconhecidos = Cardinality({i \in 1..Len(df.rows) : df.rows[i].dominio = "desconhecido"})
        /\ percentagem.den > 0
        /\ total = 0 => percentagem.num = 0
        /\ total > 0 =>
              percentagem.num * total = 100 * (total - desconhecidos) * percentagem.den
        /\ (\A i \in 1..Len(df.rows) : df.rows[i].dominio = "desconhecido")
              => percentagem.num = 0
        /\ (total > 0 /\ \A i \in 1..Len(df.rows) : df.rows[i].dominio # "desconhecido")
              => percentagem.num = 100 * percentagem.den
        /\ 0 <= percentagem.num /\ percentagem.num <= 100 * percentagem.den

\* the statistics of a dataset without rows
C9_Witness ==
    /\ pc = "exportar"
    /\ df.rows = <<>>
    /\ total = 0
    /\ percentagem.num = 0

=============================================================================
